---- MODULE Spec2Model ----
(***************************************************************************)
(* Model of pathfinding.py: the Pathfinder session (start / end / barrier  *)
(* selection, options, search, reset), the Tk timer queue that delivers    *)
(* the deferred colour changes, and the two search algorithms.             *)
(*                                                                         *)
(* A point [row, column] of the source is the tuple <<row, column>>, rows  *)
(* and columns counted from 0 as in the source.  Python's None is None.    *)
(***************************************************************************)
EXTENDS Integers, Sequences, FiniteSets, TLC

VARIABLES
    rows,           \* len(self.buttons)
    cols,           \* len(self.buttons[0])
    color,          \* self.buttons[r][c]["background"]
    startPoint,     \* self.startPoint
    endPoint,       \* self.endPoint
    stage,          \* which handlers the squares, Next and Reset are bound to
    searchType,     \* self.searchType
    visibleSearch,  \* self.visibleSearch
    timers,         \* callbacks registered with frame.after, earliest first
    result          \* the last search run since the session began (history variable)

vars == <<rows, cols, color, startPoint, endPoint, stage, searchType,
          visibleSearch, timers, result>>

----------------------------------------------------------------------------
(* Program constants. *)

STARTCOLOR == "yellow"
ENDCOLOR == "blue"
BACKGROUNDCOLOR == "black"
SEARCHCOLOR == "cyan"
PATHCOLOR == "green"
BARRIERCOLOR == "red"

TIME_DELAY == 100

\* sys.float_info.max: the initial "cost" of every square in the A* graph.
\* Costs are counts of moves, so any integer above the number of squares of
\* the grids explored here compares with them as FLOAT_MAX does.
FLOAT_MAX == 1000000

None == <<>>

\* value of the history variable while no search has run
NoResult == [kind |-> "none"]

----------------------------------------------------------------------------
(* Bounds of the exploration. *)

\* the interactive session is explored on a grid of one row of SessionCols
\* squares (the searches are explored on grids of several rows below)
SessionCols == 3
\* most callbacks that may be pending when a handler registers new ones
MaxTimers == 1
\* grids of the searches
MaxCells == 9
LargeSide == 6
LargeBarriers == 3

----------------------------------------------------------------------------
(* Grid helpers. *)

Cells == (0 .. rows - 1) \X (0 .. cols - 1)

CellsOf(r, c) == (0 .. r - 1) \X (0 .. c - 1)

Abs(x) == IF x < 0 THEN -x ELSE x

Min(a, b) == IF a <= b THEN a ELSE b

Max(a, b) == IF a >= b THEN a ELSE b

valid_point(point) ==
    /\ ~(point[1] < 0 \/ point[1] >= rows)
    /\ ~(point[2] < 0 \/ point[2] >= cols)

----------------------------------------------------------------------------
(* The Tk timer queue.  A pending callback is [left, cb, arg]: "left" is   *)
(* the time still to pass before it is due.  Tk keeps the callbacks in     *)
(* order of due time and runs a callback registered later after those      *)
(* already due at the same time.                                           *)

RECURSIVE after(_, _, _, _)
after(q, ms, cb, arg) ==
    IF q # <<>> /\ Head(q).left <= ms
    THEN <<Head(q)>> \o after(Tail(q), ms, cb, arg)
    ELSE <<[left |-> ms, cb |-> cb, arg |-> arg]>> \o q

\* MyButton.color_change on the button of one square
color_change(colors, square, newColor) == [colors EXCEPT ![square] = newColor]

\* variant: only the barrier colour is ever cleared
clear_colors_barrier_only(colors, cleared) ==
    [sq \in DOMAIN colors |->
        IF colors[sq] \in cleared \cap {BARRIERCOLOR}
        THEN BACKGROUNDCOLOR ELSE colors[sq]]

\* __clear_colors: every square is tested against its own colour only, so
\* the order in which the squares are visited has no effect
clear_colors(colors, cleared) ==
    [sq \in DOMAIN colors |->
        IF colors[sq] \in cleared THEN BACKGROUNDCOLOR ELSE colors[sq]]

\* __reset_background_color
reset_background_color(colors, square) ==
    IF square # None THEN color_change(colors, square, BACKGROUNDCOLOR) ELSE colors

\* __color_path: one deferred color_change per square of the path
RECURSIVE color_path(_, _)
color_path(q, path) ==
    IF path = <<>> THEN q
    ELSE color_path(after(q, TIME_DELAY, "color_change", <<Head(path), PATHCOLOR>>),
                    Tail(path))

----------------------------------------------------------------------------
(* __get_path_from_graph *)

RECURSIVE parent_chain(_, _)
parent_chain(graph, currentNode) ==
    IF currentNode = None THEN <<>>
    ELSE <<currentNode>> \o parent_chain(graph, graph[currentNode].parent)

Reverse(s) == [i \in 1 .. Len(s) |-> s[Len(s) + 1 - i]]

\* variant: the start square is not popped from the walked chain
get_path_from_graph_no_pop(graph) ==
    Reverse(parent_chain(graph, graph[endPoint].parent))

\* variant: the walked chain is not reversed
get_path_from_graph_no_reverse(graph) ==
    LET path == parent_chain(graph, graph[endPoint].parent)
    IN  IF Len(path) # 0 THEN SubSeq(path, 1, Len(path) - 1) ELSE path

get_path_from_graph(graph) ==
    LET path == parent_chain(graph, graph[endPoint].parent)
        popped == IF Len(path) # 0 THEN SubSeq(path, 1, Len(path) - 1) ELSE path
    IN  Reverse(popped)

----------------------------------------------------------------------------
(* Breadth first search.  The search state s is [graph, q, expanded, tq]:  *)
(* the per-square records, the FIFO queue, the nodes taken from the queue  *)
(* and expanded so far, and the timer queue.                               *)

\* variant: the vectors up and down come before the vector left
BfsVectors_up_first == << <<-1, 0>>, <<1, 0>>, <<0, -1>>,
                          <<0, 1>>, <<-1, -1>>,
                          <<1, -1>>, <<-1, 1>>, <<1, 1>> >>

\* variant: the four diagonal vectors are missing
BfsVectors_orthogonal == << <<0, -1>>, <<-1, 0>>, <<1, 0>>, <<0, 1>> >>

BfsVectors == << <<0, -1>>, <<-1, 0>>, <<1, 0>>,
                 <<0, 1>>, <<-1, -1>>,
                 <<1, -1>>, <<-1, 1>>, <<1, 1>> >>

RECURSIVE add_neighbors_to_queue(_, _, _)
add_neighbors_to_queue(point, s, i) ==
    IF i > Len(BfsVectors) THEN s
    ELSE LET n == <<point[1] + BfsVectors[i][1], point[2] + BfsVectors[i][2]>>
         IN  IF /\ valid_point(n)
                /\ s.graph[n].visited = FALSE
                /\ color[n] # BARRIERCOLOR
             THEN add_neighbors_to_queue(point,
                      [s EXCEPT !.graph[n] = [visited |-> TRUE, parent |-> point],
                                !.q = Append(@, n)],
                      i + 1)
             ELSE add_neighbors_to_queue(point, s, i + 1)

\* variant: the loop does not stop when the end is taken from the queue
RECURSIVE bfs_loop_no_break(_)
bfs_loop_no_break(s) ==
    IF s.q = <<>> THEN s
    ELSE LET node == Head(s.q)
             s1 == [s EXCEPT !.q = Tail(@)]
         IN  bfs_loop_no_break(add_neighbors_to_queue(node,
                 [s1 EXCEPT !.expanded = Append(@, node),
                            !.tq = IF visibleSearch = "True"
                                   THEN after(@, TIME_DELAY, "color_change",
                                              <<node, SEARCHCOLOR>>)
                                   ELSE @],
                 1))

RECURSIVE bfs_loop(_)
bfs_loop(s) ==
    IF s.q = <<>> THEN s
    ELSE LET node == Head(s.q)
             s1 == [s EXCEPT !.q = Tail(@)]
         IN  IF node = endPoint THEN s1
             ELSE bfs_loop(add_neighbors_to_queue(node,
                      [s1 EXCEPT !.expanded = Append(@, node),
                                 !.tq = IF visibleSearch = "True"
                                        THEN after(@, TIME_DELAY, "color_change",
                                                   <<node, SEARCHCOLOR>>)
                                        ELSE @],
                      1))

breadthFirstSearch(tq) ==
    LET graph0 == [sq \in Cells |-> [visited |-> FALSE, parent |-> None]]
        graph1 == [graph0 EXCEPT ![startPoint].visited = TRUE]
        s0 == [graph |-> graph1, q |-> <<>>, expanded |-> <<>>, tq |-> tq]
        s == bfs_loop(add_neighbors_to_queue(startPoint, s0, 1))
        path == get_path_from_graph(s.graph)
    IN  [path |-> path, expanded |-> s.expanded, graph |-> s.graph,
         tq |-> after(s.tq, TIME_DELAY, "color_path", path)]

----------------------------------------------------------------------------
(* A* search.  A priority is the float newCost + h.  With                  *)
(* h = (dx + dy) + (sqrt(2) - 2) * min(dx, dy) it is the number            *)
(* a + b * sqrt(2) for the integers a = newCost + dx + dy - 2 * min(dx, dy)*)
(* and b = min(dx, dy); it is kept as the pair <<a, b>> and two priorities *)
(* are compared exactly.  (For the grids explored here the floats the      *)
(* source computes are ordered, and equal, exactly as these numbers are.)  *)

heuristic(point) ==
    LET dx == Abs(point[1] - endPoint[1])
        dy == Abs(point[2] - endPoint[2])
    IN  <<(dx + dy) - 2 * Min(dx, dy), Min(dx, dy)>>

\* p[1] + p[2] * sqrt(2) < q[1] + q[2] * sqrt(2)
PriorityLess(p, q) ==
    LET a == p[1] - q[1]
        b == q[2] - p[2]
    IN  \* a < b * sqrt(2)
        IF a < 0
        THEN b >= 0 \/ a * a > 2 * b * b
        ELSE b > 0 /\ a * a < 2 * b * b

\* order of the tuples (priority, [row, column]) held by the PriorityQueue
EntryLess(e, f) ==
    \/ PriorityLess(e[1], f[1])
    \/ /\ e[1] = f[1]
       /\ \/ e[2][1] < f[2][1]
          \/ e[2][1] = f[2][1] /\ e[2][2] < f[2][2]

\* index of the entry PriorityQueue.get returns: a least one
LeastIndex(pq) ==
    CHOOSE i \in 1 .. Len(pq) : \A j \in 1 .. Len(pq) : ~EntryLess(pq[j], pq[i])

RemoveAt(q, i) == SubSeq(q, 1, i - 1) \o SubSeq(q, i + 1, Len(q))

\* variant: the four diagonal vectors are missing
AStarVectors_orthogonal == << <<-1, 0>>, <<0, -1>>, <<0, 1>>, <<1, 0>> >>

AStarVectors == << <<-1, -1>>, <<-1, 0>>, <<-1, 1>>,
                   <<0, -1>>, <<0, 1>>,
                   <<1, -1>>, <<1, 0>>, <<1, 1>> >>

\* variant: the cost recorded for a neighbour is the cost of the point
\* itself, without the move
RECURSIVE add_neighbors_to_priority_queue_stale_cost(_, _, _)
add_neighbors_to_priority_queue_stale_cost(point, s, i) ==
    IF i > Len(AStarVectors) THEN s
    ELSE LET n == <<point[1] + AStarVectors[i][1], point[2] + AStarVectors[i][2]>>
             newCost == s.graph[point].cost + 1
             h == heuristic(n)
         IN  IF /\ valid_point(n)
                /\ color[n] # BARRIERCOLOR
                /\ newCost < s.graph[n].cost
             THEN add_neighbors_to_priority_queue_stale_cost(point,
                      [s EXCEPT !.graph[n] = [cost |-> s.graph[point].cost,
                                              parent |-> point],
                                !.q = Append(@, <<<<newCost + h[1], h[2]>>, n>>)],
                      i + 1)
             ELSE add_neighbors_to_priority_queue_stale_cost(point, s, i + 1)

RECURSIVE add_neighbors_to_priority_queue(_, _, _)
add_neighbors_to_priority_queue(point, s, i) ==
    IF i > Len(AStarVectors) THEN s
    ELSE LET n == <<point[1] + AStarVectors[i][1], point[2] + AStarVectors[i][2]>>
             newCost == s.graph[point].cost + 1
             h == heuristic(n)
         IN  IF /\ valid_point(n)
                /\ color[n] # BARRIERCOLOR
                /\ newCost < s.graph[n].cost
             THEN add_neighbors_to_priority_queue(point,
                      [s EXCEPT !.graph[n] = [cost |-> newCost, parent |-> point],
                                !.q = Append(@, <<<<newCost + h[1], h[2]>>, n>>)],
                      i + 1)
             ELSE add_neighbors_to_priority_queue(point, s, i + 1)

RECURSIVE astar_loop(_)
astar_loop(s) ==
    IF s.q = <<>> THEN s
    ELSE LET i == LeastIndex(s.q)
             node == s.q[i][2]
             s1 == [s EXCEPT !.q = RemoveAt(@, i)]
         IN  IF node = endPoint THEN s1
             ELSE astar_loop(add_neighbors_to_priority_queue(node,
                      [s1 EXCEPT !.expanded = Append(@, node),
                                 !.tq = IF visibleSearch = "True"
                                        THEN after(@, TIME_DELAY, "color_change",
                                                   <<node, SEARCHCOLOR>>)
                                        ELSE @],
                      1))

aStarSearch(tq) ==
    LET graph0 == [sq \in Cells |-> [cost |-> FLOAT_MAX, parent |-> None]]
        graph1 == [graph0 EXCEPT ![startPoint].cost = 0]
        s0 == [graph |-> graph1, q |-> <<>>, expanded |-> <<>>, tq |-> tq]
        s == astar_loop(add_neighbors_to_priority_queue(startPoint, s0, 1))
        path == get_path_from_graph(s.graph)
    IN  [path |-> path, expanded |-> s.expanded, graph |-> s.graph,
         tq |-> after(s.tq, TIME_DELAY, "color_path", path)]

----------------------------------------------------------------------------
(* The handlers of the session.  "stage" names the set of handlers that    *)
(* __set_buttons_for_start_point, __set_buttons_for_end_point,             *)
(* __set_buttons_for_barrier and __update_ui_for_options bind to the       *)
(* squares, to the Next button and to the Reset button.                    *)

\* __update_color_of_newButton_reset_oldButton_color
update_color_of_newButton_reset_oldButton_color(colors, newColor, newButton, oldButton) ==
    IF newButton # None
    THEN IF oldButton = None
         THEN color_change(colors, newButton, newColor)
         ELSE color_change(color_change(colors, oldButton, BACKGROUNDCOLOR),
                           newButton, newColor)
    ELSE colors

\* variant: the end point is not compared
button_is_start_or_end_start_only(button) == button = startPoint

\* __button_is_start_or_end
button_is_start_or_end(button) == button = startPoint \/ button = endPoint

\* <Button-1> on a square while picking the start
select_start_point(button) ==
    /\ stage = "PickingStart"
    /\ color' = update_color_of_newButton_reset_oldButton_color(
                    color, STARTCOLOR, button, startPoint)
    /\ startPoint' = button
    /\ UNCHANGED <<rows, cols, endPoint, stage, searchType, visibleSearch,
                   timers, result>>

\* variant: the square is not compared with the start point
select_end_point_unchecked(button) ==
    /\ stage = "PickingEnd"
    /\ color' = update_color_of_newButton_reset_oldButton_color(
                    color, ENDCOLOR, button, endPoint)
    /\ endPoint' = button
    /\ UNCHANGED <<rows, cols, startPoint, stage, searchType, visibleSearch,
                   timers, result>>

\* <Button-1> on a square while picking the end
select_end_point(button) ==
    /\ stage = "PickingEnd"
    /\ IF button # startPoint
       THEN /\ color' = update_color_of_newButton_reset_oldButton_color(
                            color, ENDCOLOR, button, endPoint)
            /\ endPoint' = button
       ELSE UNCHANGED <<color, endPoint>>
    /\ UNCHANGED <<rows, cols, startPoint, stage, searchType, visibleSearch,
                   timers, result>>

\* variant: a barrier square that is selected again becomes empty
select_barrier_toggle(button) ==
    /\ stage = "EditingBarriers"
    /\ IF ~button_is_start_or_end(button)
       THEN color' = color_change(color, button,
                         IF color[button] = BARRIERCOLOR
                         THEN BACKGROUNDCOLOR ELSE BARRIERCOLOR)
       ELSE UNCHANGED color
    /\ UNCHANGED <<rows, cols, startPoint, endPoint, stage, searchType,
                   visibleSearch, timers, result>>

\* <Button-1> or <B1-Motion> over a square while editing the barrier
select_barrier(button) ==
    /\ stage = "EditingBarriers"
    /\ IF ~button_is_start_or_end(button)
       THEN color' = color_change(color, button, BARRIERCOLOR)
       ELSE UNCHANGED color
    /\ UNCHANGED <<rows, cols, startPoint, endPoint, stage, searchType,
                   visibleSearch, timers, result>>

\* variant: Next does not test that the start is set
set_buttons_for_end_point_unguarded ==
    /\ stage = "PickingStart"
    /\ stage' = "PickingEnd"
    /\ UNCHANGED <<rows, cols, color, startPoint, endPoint, searchType,
                   visibleSearch, timers, result>>

\* Next while picking the start
set_buttons_for_end_point ==
    /\ stage = "PickingStart"
    /\ IF startPoint # None THEN stage' = "PickingEnd" ELSE UNCHANGED stage
    /\ UNCHANGED <<rows, cols, color, startPoint, endPoint, searchType,
                   visibleSearch, timers, result>>

\* variant: Next does not test that the end is set
set_buttons_for_barrier_unguarded ==
    /\ stage = "PickingEnd"
    /\ stage' = "EditingBarriers"
    /\ UNCHANGED <<rows, cols, color, startPoint, endPoint, searchType,
                   visibleSearch, timers, result>>

\* Next while picking the end
set_buttons_for_barrier ==
    /\ stage = "PickingEnd"
    /\ IF endPoint # None THEN stage' = "EditingBarriers" ELSE UNCHANGED stage
    /\ UNCHANGED <<rows, cols, color, startPoint, endPoint, searchType,
                   visibleSearch, timers, result>>

\* Next while editing the barrier
update_ui_for_options ==
    /\ stage = "EditingBarriers"
    /\ stage' = "ChoosingOptions"
    /\ UNCHANGED <<rows, cols, color, startPoint, endPoint, searchType,
                   visibleSearch, timers, result>>

\* Reset while picking the start
remove_start_point ==
    /\ stage = "PickingStart"
    /\ color' = reset_background_color(color, startPoint)
    /\ startPoint' = None
    /\ UNCHANGED <<rows, cols, endPoint, stage, searchType, visibleSearch,
                   timers, result>>

\* Reset while picking the end
remove_end_point ==
    /\ stage = "PickingEnd"
    /\ color' = reset_background_color(color, endPoint)
    /\ endPoint' = None
    /\ UNCHANGED <<rows, cols, startPoint, stage, searchType, visibleSearch,
                   timers, result>>

\* Reset while editing the barrier
reset_barrier ==
    /\ stage = "EditingBarriers"
    /\ color' = clear_colors(color, {BARRIERCOLOR})
    /\ UNCHANGED <<rows, cols, startPoint, endPoint, stage, searchType,
                   visibleSearch, timers, result>>

\* the radio buttons, on screen while choosing the options
select_search_type(value) ==
    /\ stage = "ChoosingOptions"
    /\ searchType' = value
    /\ UNCHANGED <<rows, cols, color, startPoint, endPoint, stage,
                   visibleSearch, timers, result>>

\* the check button, on screen while choosing the options
toggle_visible ==
    /\ stage = "ChoosingOptions"
    /\ visibleSearch' = IF visibleSearch = "True" THEN "False" ELSE "True"
    /\ UNCHANGED <<rows, cols, color, startPoint, endPoint, stage,
                   searchType, timers, result>>

\* "Start search": __search
search ==
    /\ stage = "ChoosingOptions"
    /\ Len(timers) <= MaxTimers
    /\ color' = clear_colors(color, {SEARCHCOLOR, PATHCOLOR})
    /\ IF searchType \in {"Breadth", "A*"}
       THEN LET r == IF searchType = "Breadth"
                     THEN breadthFirstSearch(timers)
                     ELSE aStarSearch(timers)
            IN  /\ timers' = r.tq
                /\ result' = [kind |-> searchType,
                              start |-> startPoint,
                              end |-> endPoint,
                              barrier |-> {sq \in Cells : color[sq] = BARRIERCOLOR},
                              path |-> r.path,
                              expanded |-> r.expanded]
       ELSE UNCHANGED <<timers, result>>
    /\ UNCHANGED <<rows, cols, startPoint, endPoint, stage, searchType,
                   visibleSearch>>

\* variant: the end point is not removed
reset_UI_keeps_end ==
    /\ stage = "ChoosingOptions"
    /\ Len(timers) <= MaxTimers
    /\ color' = reset_background_color(color, startPoint)
    /\ startPoint' = None
    /\ timers' = after(timers, TIME_DELAY * 2, "clear_colors",
                       {BARRIERCOLOR, PATHCOLOR, SEARCHCOLOR})
    /\ visibleSearch' = "False"
    /\ searchType' = "Breadth"
    /\ stage' = "PickingStart"
    /\ result' = NoResult
    /\ UNCHANGED <<rows, cols, endPoint>>

\* "Start over": __reset_UI
reset_UI ==
    /\ stage = "ChoosingOptions"
    /\ Len(timers) <= MaxTimers
    /\ color' = reset_background_color(
                    reset_background_color(color, startPoint), endPoint)
    /\ startPoint' = None
    /\ endPoint' = None
    /\ timers' = after(timers, TIME_DELAY * 2, "clear_colors",
                       {BARRIERCOLOR, PATHCOLOR, SEARCHCOLOR})
    /\ visibleSearch' = "False"
    /\ searchType' = "Breadth"
    /\ stage' = "PickingStart"
    /\ result' = NoResult
    /\ UNCHANGED <<rows, cols>>

----------------------------------------------------------------------------
(* Time and the timer queue. *)

\* TIME_DELAY passes; Tk has run the callbacks that were due before it does
Tick ==
    /\ timers # <<>> /\ Head(timers).left > 0
    /\ timers' = [i \in 1 .. Len(timers) |->
                    [timers[i] EXCEPT !.left = Max(0, @ - TIME_DELAY)]]
    /\ UNCHANGED <<rows, cols, color, startPoint, endPoint, stage, searchType,
                   visibleSearch, result>>

\* Tk runs the earliest callback that is due
FireTimer ==
    /\ timers # <<>>
    /\ Head(timers).left = 0
    /\ LET t == Head(timers)
       IN  CASE t.cb = "color_change" ->
                    /\ color' = color_change(color, t.arg[1], t.arg[2])
                    /\ timers' = Tail(timers)
             [] t.cb = "color_path" ->
                    /\ timers' = color_path(Tail(timers), t.arg)
                    /\ UNCHANGED color
             [] t.cb = "clear_colors" ->
                    /\ color' = clear_colors(color, t.arg)
                    /\ timers' = Tail(timers)
    /\ UNCHANGED <<rows, cols, startPoint, endPoint, stage, searchType,
                   visibleSearch, result>>

----------------------------------------------------------------------------
(* The session, from the construction of the Pathfinder. *)

Init ==
    /\ rows = 1
    /\ cols = SessionCols
    /\ color = [sq \in CellsOf(1, SessionCols) |-> BACKGROUNDCOLOR]
    /\ startPoint = None
    /\ endPoint = None
    /\ stage = "PickingStart"
    /\ searchType = "Breadth"
    /\ visibleSearch = "False"
    /\ timers = <<>>
    /\ result = NoResult

Next ==
    \/ \E button \in Cells : select_start_point(button)
    \/ \E button \in Cells : select_end_point(button)
    \/ \E button \in Cells : select_barrier(button)
    \/ set_buttons_for_end_point
    \/ set_buttons_for_barrier
    \/ update_ui_for_options
    \/ remove_start_point
    \/ remove_end_point
    \/ reset_barrier
    \/ \E value \in {"Breadth", "A*"} : select_search_type(value)
    \/ toggle_visible
    \/ search
    \/ reset_UI
    \/ Tick
    \/ FireTimer

Spec == Init /\ [][Next]_vars

----------------------------------------------------------------------------
(* The searches on their own: every grid of at least two rows and two     *)
(* columns and at most MaxCells squares with every barrier, start and end, *)
(* and the square grid of side LargeSide with the start in a corner, the   *)
(* end in the first or the last corner and at most LargeBarriers barrier   *)
(* squares next to these two.  Each is a state the session reaches when    *)
(* the user has chosen the options.                                        *)

Adjacent(p, q) == p # q /\ Abs(p[1] - q[1]) <= 1 /\ Abs(p[2] - q[2]) <= 1

GridSizes ==
    {d \in (2 .. MaxCells) \X (2 .. MaxCells) : d[1] * d[2] <= MaxCells}

LargeCorners == {<<0, 0>>, <<LargeSide - 1, LargeSide - 1>>}

LargeStarts ==
    LargeCorners \cup {<<0, LargeSide - 1>>, <<LargeSide - 1, 0>>}

NextToLargeCorners ==
    {sq \in CellsOf(LargeSide, LargeSide) : \E k \in LargeCorners : Adjacent(sq, k)}

\* the state in which the options are being chosen on an r x c grid with
\* barrier b, start s and end e
OptionsState(r, c, b, s, e) ==
    /\ rows = r
    /\ cols = c
    /\ color = [sq \in CellsOf(r, c) |->
                  IF sq \in b THEN BARRIERCOLOR
                  ELSE IF sq = s THEN STARTCOLOR
                  ELSE IF sq = e THEN ENDCOLOR
                  ELSE BACKGROUNDCOLOR]
    /\ startPoint = s
    /\ endPoint = e
    /\ stage = "ChoosingOptions"
    /\ searchType \in {"Breadth", "A*"}
    /\ visibleSearch \in {"False", "True"}
    /\ timers = <<>>
    /\ result = NoResult

SearchInit ==
    \/ \E d \in GridSizes :
         \E b \in SUBSET CellsOf(d[1], d[2]) :
           \E s \in CellsOf(d[1], d[2]) \ b :
             \E e \in CellsOf(d[1], d[2]) \ (b \cup {s}) :
               OptionsState(d[1], d[2], b, s, e)
    \/ \E b \in SUBSET NextToLargeCorners :
         \E s \in LargeStarts :
           \E e \in LargeCorners \ {s} :
             /\ Cardinality(b) <= LargeBarriers
             /\ OptionsState(LargeSide, LargeSide, b, s, e)

\* one search from each such state
SearchNext == result = NoResult /\ search

SpecSearch == SearchInit /\ [][SearchNext]_vars

(* A visible breadth first search and the delivery of its markers: one     *)
(* search from each such state, then the callbacks it registered run as    *)
(* they fall due.                                                          *)

DeliverInit == SearchInit /\ searchType = "Breadth" /\ visibleSearch = "True"

DeliverNext == SearchNext \/ Tick \/ FireTimer

SpecDeliver == DeliverInit /\ [][DeliverNext]_vars

----------------------------------------------------------------------------
(* Properties of the searches. *)

Chebyshev(p, q) == Max(Abs(p[1] - q[1]), Abs(p[2] - q[2]))

\* least number of 8-connected moves from the squares of "frontier" (which
\* are d moves from the start) to target through the squares of "free"; -1
\* if there is no way
RECURSIVE MovesFrom(_, _, _, _, _)
MovesFrom(frontier, seen, free, target, d) ==
    IF target \in frontier THEN d
    ELSE IF frontier = {} THEN -1
    ELSE LET nxt == {n \in free \ seen : \E f \in frontier : Adjacent(f, n)}
         IN  MovesFrom(nxt, seen \cup nxt, free, target, d + 1)

\* least number of moves from start to end of the search recorded in result
ResultMoves ==
    MovesFrom({result.start}, {result.start}, Cells \ result.barrier, result.end, 0)

Searched == result.kind # "none"

PathCells == {result.path[i] : i \in 1 .. Len(result.path)}

\* C1: when end can be reached from start, the path of the breadth first
\* search has as many squares as the least number of 8-connected moves from
\* start to end, minus 1.
C1_BfsPathIsShortest ==
    (Searched /\ result.kind = "Breadth" /\ ResultMoves # -1)
        => Len(result.path) = ResultMoves - 1

\* a breadth first search whose barrier forces a way round of 4 moves or more
C1_Witness ==
    /\ Searched /\ result.kind = "Breadth"
    /\ result.barrier # {}
    /\ ResultMoves >= 4
    /\ ResultMoves > Chebyshev(result.start, result.end)
    /\ Len(result.path) = ResultMoves - 1

\* C2: when end can be reached, the path of the A* search has exactly as
\* many squares as the path of the breadth first search on the same grid,
\* barrier, start and end.
C2_AStarPathAsShortAsBfs ==
    (Searched /\ result.kind = "A*" /\ ResultMoves # -1)
        => Len(result.path) = Len(breadthFirstSearch(<<>>).path)

\* C3: with no barrier both searches return a path of Chebyshev distance
\* minus 1 squares.
C3_NoBarrierChebyshev ==
    (Searched /\ result.barrier = {})
        => Len(result.path) = Chebyshev(result.start, result.end) - 1

\* an A* search without barrier between squares 3 or more moves apart that
\* are neither in one row, one column nor on one diagonal
C3_Witness ==
    /\ Searched /\ result.kind = "A*"
    /\ result.barrier = {}
    /\ Chebyshev(result.start, result.end) >= 3
    /\ Abs(result.start[1] - result.end[1]) \notin
           {0, Abs(result.start[2] - result.end[2])}
    /\ result.start[2] # result.end[2]
    /\ Len(result.path) = Chebyshev(result.start, result.end) - 1

\* C4: a non-empty path is a chain from start to end: its first square is
\* next to start, its last square next to end, consecutive squares are
\* next to each other, no square is repeated, none is a barrier and neither
\* start nor end is in it.
C4_PathIsChain ==
    (Searched /\ result.path # <<>>)
        => LET path == result.path
           IN  /\ Adjacent(path[1], result.start)
               /\ Adjacent(path[Len(path)], result.end)
               /\ \A i \in 1 .. Len(path) - 1 : Adjacent(path[i], path[i + 1])
               /\ \A i, j \in 1 .. Len(path) : path[i] = path[j] => i = j
               /\ PathCells \cap result.barrier = {}
               /\ result.start \notin PathCells
               /\ result.end \notin PathCells

\* an A* path of 3 squares or more on a grid with a barrier
C4_Witness ==
    /\ Searched /\ result.kind = "A*"
    /\ result.barrier # {}
    /\ Len(result.path) >= 3
    /\ Adjacent(result.path[1], result.start)
    /\ Adjacent(result.path[Len(result.path)], result.end)

\* C5: the path is empty if end cannot be reached or start and end are next
\* to each other, and non-empty in every other case.
C5_EmptyPath ==
    Searched
        => (result.path = <<>>
                <=> (ResultMoves = -1 \/ Adjacent(result.start, result.end)))

\* a search whose end is shut in by barriers: every neighbour of end on the
\* grid is a barrier and the path is empty
C5_Witness ==
    /\ Searched
    /\ \A sq \in Cells : Adjacent(sq, result.end) => sq \in result.barrier
    /\ ~Adjacent(result.start, result.end)
    /\ result.path = <<>>

----------------------------------------------------------------------------
(* Properties of the session. *)

Marked(c) == {sq \in Cells : color[sq] = c}

ARTIFACTCOLORS == {BARRIERCOLOR, PATHCOLOR, SEARCHCOLOR}

\* a clear_colors callback that __reset_UI has just registered
ClearJustRegistered(q) ==
    \E i \in 1 .. Len(q) :
        q[i] = [left |-> TIME_DELAY * 2, cb |-> "clear_colors", arg |-> ARTIFACTCOLORS]

\* C6: at most one square carries the start marker and at most one the end
\* marker, and whenever startPoint (endPoint) is set it names the one square
\* that carries the start (end) marker.
C6_MarkersNameTheEndpoints ==
    /\ Cardinality(Marked(STARTCOLOR)) <= 1
    /\ Cardinality(Marked(ENDCOLOR)) <= 1
    /\ startPoint # None => Marked(STARTCOLOR) = {startPoint}
    /\ endPoint # None => Marked(ENDCOLOR) = {endPoint}

\* C7: startPoint and endPoint are never the same square, and a click that
\* picks the start square as the end changes neither end point nor any
\* colour.
C7_StartIsNotEnd ==
    /\ [](startPoint # None => startPoint # endPoint)
    /\ [][select_end_point(startPoint)
            => UNCHANGED <<startPoint, endPoint, color>>]_vars

\* both end points are picked and the end is still being picked
C7_Witness ==
    /\ stage = "PickingEnd"
    /\ startPoint # None
    /\ endPoint # None
    /\ color[startPoint] = STARTCOLOR
    /\ color[endPoint] = ENDCOLOR

\* C8: the start square and the end square are never barriers, and a barrier
\* selection on the start or the end square changes nothing.
C8_EndpointsAreNotBarriers ==
    /\ [](/\ startPoint # None => color[startPoint] # BARRIERCOLOR
          /\ endPoint # None => color[endPoint] # BARRIERCOLOR)
    /\ [][(select_barrier(startPoint) \/ select_barrier(endPoint))
            => UNCHANGED vars]_vars

\* a barrier has been drawn while both end points are set
C8_Witness ==
    /\ stage = "EditingBarriers"
    /\ startPoint # None
    /\ endPoint # None
    /\ Marked(BARRIERCOLOR) # {}

\* C9 as stated: in every stage Reset leads to PickingStart with startPoint
\* and endPoint cleared and no barrier, visited or path marker left.
C9_ResetAlwaysStartsOver ==
    [][(remove_start_point \/ remove_end_point \/ reset_barrier \/ reset_UI)
         => /\ stage' = "PickingStart"
            /\ startPoint' = None
            /\ endPoint' = None
            /\ \A sq \in Cells : color'[sq] \notin ARTIFACTCOLORS]_vars

\* C9 amended: what Reset does depends on the stage.  While the start is
\* picked it removes the start point and its marker; while the end is picked
\* it removes the end point and its marker and keeps the start; while the
\* barrier is edited it removes the barrier markers and keeps both points;
\* in these three the stage stays.  While the options are chosen it leads to
\* PickingStart with both points and both markers removed.
C9_ResetByStage ==
    [][/\ remove_start_point
            => /\ stage' = "PickingStart"
               /\ startPoint' = None /\ endPoint' = endPoint
               /\ \A sq \in Cells : color'[sq] # STARTCOLOR
       /\ remove_end_point
            => /\ stage' = "PickingEnd"
               /\ startPoint' = startPoint /\ endPoint' = None
               /\ \A sq \in Cells : color'[sq] # ENDCOLOR
       /\ reset_barrier
            => /\ stage' = "EditingBarriers"
               /\ startPoint' = startPoint /\ endPoint' = endPoint
               /\ \A sq \in Cells : color'[sq] # BARRIERCOLOR
       /\ reset_UI
            => /\ stage' = "PickingStart"
               /\ startPoint' = None /\ endPoint' = None
               /\ \A sq \in Cells : color'[sq] \notin {STARTCOLOR, ENDCOLOR}]_vars

\* "Start over" has just been pressed on a grid with a barrier
C9_Witness ==
    /\ stage = "PickingStart"
    /\ startPoint = None
    /\ endPoint = None
    /\ ClearJustRegistered(timers)
    /\ Marked(BARRIERCOLOR) # {}

\* C10 as stated: the state reached by a reset after a search is
\* PickingStart with both points unset and every square empty.
C10_ResetLeavesEverySquareEmpty ==
    [][(reset_UI /\ Searched)
         => /\ stage' = "PickingStart"
            /\ startPoint' = None
            /\ endPoint' = None
            /\ \A sq \in Cells : color'[sq] = BACKGROUNDCOLOR]_vars

\* C10 amended: the state reached by a reset after a search is PickingStart
\* with both points unset and no start or end marker; the start square and
\* the end square are empty, every other square keeps the barrier, visited
\* or path marker it had, and a clear_colors callback is registered for
\* 2 * TIME_DELAY later; when that callback runs, no barrier, visited or
\* path marker is left on any square.
C10_ResetDefersTheClearing ==
    [][/\ (reset_UI /\ Searched)
            => /\ stage' = "PickingStart"
               /\ startPoint' = None
               /\ endPoint' = None
               /\ \A sq \in Cells :
                     /\ color'[sq] \notin {STARTCOLOR, ENDCOLOR}
                     /\ color'[sq] = IF sq \in {startPoint, endPoint}
                                     THEN BACKGROUNDCOLOR ELSE color[sq]
               /\ ClearJustRegistered(timers')
       /\ (FireTimer /\ Head(timers).cb = "clear_colors")
            => \A sq \in Cells : color'[sq] \notin ARTIFACTCOLORS]_vars

\* "Start over" has just been pressed while a path marker is on the grid
C10_Witness ==
    /\ stage = "PickingStart"
    /\ startPoint = None
    /\ endPoint = None
    /\ ClearJustRegistered(timers)
    /\ Marked(PATHCOLOR) # {}


\* C11: Next pressed while the start is picked and no start is set, or while
\* the end is picked and no end is set, changes nothing; with the point set
\* it leads to the next stage (PickingStart to PickingEnd, PickingEnd to
\* EditingBarriers) and changes neither point nor any colour.
C11_NextNeedsThePoint ==
    [][/\ (set_buttons_for_end_point /\ startPoint = None) => UNCHANGED vars
       /\ (set_buttons_for_barrier /\ endPoint = None) => UNCHANGED vars
       /\ (set_buttons_for_end_point /\ startPoint # None)
            => /\ stage' = "PickingEnd"
               /\ UNCHANGED <<startPoint, endPoint, color>>
       /\ (set_buttons_for_barrier /\ endPoint # None)
            => /\ stage' = "EditingBarriers"
               /\ UNCHANGED <<startPoint, endPoint, color>>]_vars

\* Next has led to the picking of the end, where no end is set yet
C11_Witness ==
    /\ stage = "PickingEnd"
    /\ startPoint # None
    /\ color[startPoint] = STARTCOLOR
    /\ endPoint = None
    /\ Marked(ENDCOLOR) = {}


\* C12: a search and the delivery of its visited and path markers change
\* neither startPoint nor endPoint nor the set of barrier squares, and a
\* marker is only ever written to a square that is neither start, end nor
\* barrier.
C12_MarkersSpareEndpointsAndBarrier ==
    [][/\ (search \/ (FireTimer /\ Head(timers).cb \in {"color_change", "color_path"}))
            => /\ UNCHANGED <<startPoint, endPoint>>
               /\ {sq \in Cells : color'[sq] = BARRIERCOLOR} = Marked(BARRIERCOLOR)
       /\ (FireTimer /\ Head(timers).cb = "color_change")
            => /\ Head(timers).arg[1] \notin {startPoint, endPoint}
               /\ color[Head(timers).arg[1]] # BARRIERCOLOR]_vars


\* a pending callback that delivers a visited or a path marker
IsMarkerDelivery(t) == t.cb \in {"color_change", "color_path"}

ExpandedCells == {result.expanded[i] : i \in 1 .. Len(result.expanded)}

\* C13: a new search cancels the marker deliveries of an earlier search that
\* are still pending: once it has started, the only deliveries pending are
\* its own, and when they have all run the path markers shown are those of
\* its path and the visited markers shown are on squares it expanded.
C13_NewSearchCancelsPending ==
    /\ [][search
            => SelectSeq(timers', IsMarkerDelivery)
                 = (IF searchType = "Breadth"
                    THEN breadthFirstSearch(<<>>)
                    ELSE aStarSearch(<<>>)).tq]_vars
    /\ []((Searched /\ timers = <<>>)
            => /\ Marked(PATHCOLOR) = PathCells
               /\ Marked(SEARCHCOLOR) \subseteq ExpandedCells)


----------------------------------------------------------------------------
(* The graph a search leaves. *)

\* the per-square records at the end of the search recorded in result
ResultGraph ==
    IF result.kind = "Breadth"
    THEN breadthFirstSearch(<<>>).graph
    ELSE aStarSearch(<<>>).graph

\* the walk along the parents from node ends within "fuel" steps
RECURSIVE ChainEnds(_, _, _)
ChainEnds(graph, node, fuel) ==
    IF node = None THEN TRUE
    ELSE IF fuel = 0 THEN FALSE
    ELSE ChainEnds(graph, graph[node].parent, fuel - 1)

\* C16: every search ends, and the graph it leaves has no cycle of
\* parents: the start square has no parent, the walk along the parents from
\* any square ends after at most as many steps as the grid has squares, and
\* in A* the cost recorded for the parent of a square is less than the
\* cost recorded for the square.  A* expands a square again only after its
\* cost has gone down, so it expands at most (number of squares) squared
\* times.
C16_ParentChainsEnd ==
    Searched
        => LET graph == ResultGraph
           IN  /\ graph[result.start].parent = None
               /\ \A sq \in Cells : ChainEnds(graph, sq, Cardinality(Cells))
               /\ result.kind = "A*"
                     => \A sq \in Cells :
                           graph[sq].parent # None
                             => graph[graph[sq].parent].cost < graph[sq].cost
               /\ Len(result.expanded) <= Cardinality(Cells) * Cardinality(Cells)
               /\ result.path = get_path_from_graph(graph)

\* an A* search that has taken a square from the queue twice, an entry with
\* its former cost and one with its lower cost, and has ended
C16_Witness ==
    /\ Searched /\ result.kind = "A*"
    /\ \E i, j \in 1 .. Len(result.expanded) :
          i # j /\ result.expanded[i] = result.expanded[j]
    /\ ResultGraph[result.start].parent = None

\* C19: the heuristic of A* never overestimates: for every square from
\* which the end can be reached, h is at most the least number of moves
\* from the square to the end.
C19_HeuristicIsAdmissible ==
    (Searched /\ result.kind = "A*")
        => \A sq \in Cells \ result.barrier :
              LET moves == MovesFrom({sq}, {sq}, Cells \ result.barrier,
                                     result.end, 0)
              IN  moves # -1 => ~PriorityLess(<<moves, 0>>, heuristic(sq))

\* the squares in the order in which the breadth first search recorded in
\* result has taken them from its queue
DequeueOrder ==
    result.expanded
        \o (IF ResultGraph[result.end].parent # None THEN <<result.end>> ELSE <<>>)

\* place of the vector v in the sequence "order"; one more than its length
\* for a vector that is not in it
VectorRank(order, v) ==
    IF \E i \in 1 .. Len(order) : order[i] = v
    THEN CHOOSE i \in 1 .. Len(order) : order[i] = v
    ELSE Len(order) + 1

\* the neighbours that were put into the queue for one and the same square
\* have left the queue in the order in which "order" lists their directions
EnqueuedInOrder(order) ==
    LET graph == ResultGraph
        dq == DequeueOrder
    IN  \A i, j \in 1 .. Len(dq) :
           (i < j /\ graph[dq[i]].parent = graph[dq[j]].parent)
             => LET p == graph[dq[i]].parent
                IN  VectorRank(order, <<dq[i][1] - p[1], dq[i][2] - p[2]>>)
                      <= VectorRank(order, <<dq[j][1] - p[1], dq[j][2] - p[2]>>)

\* C18 as stated: the eligible neighbours of a square enter the queue of
\* the breadth first search in the order up (row - 1), down (row + 1), left
\* (column - 1), right (column + 1), then the four diagonals.
C18_UpDownLeftRight ==
    (Searched /\ result.kind = "Breadth")
        => EnqueuedInOrder(<< <<-1, 0>>, <<1, 0>>, <<0, -1>>, <<0, 1>> >>)

\* C18 amended: the eligible neighbours of a square enter the queue of the
\* breadth first search in the order left (column - 1), up (row - 1), down
\* (row + 1), right (column + 1), then up-left, down-left, up-right,
\* down-right.
C18_LeftUpDownRight ==
    (Searched /\ result.kind = "Breadth")
        => EnqueuedInOrder(<< <<0, -1>>, <<-1, 0>>, <<1, 0>>, <<0, 1>>,
                              <<-1, -1>>, <<1, -1>>, <<-1, 1>>, <<1, 1>> >>)

\* a breadth first search that has expanded the left neighbour of the start
\* first, then the neighbour above it, and later a diagonal neighbour
C18_Witness ==
    /\ Searched /\ result.kind = "Breadth"
    /\ Len(result.expanded) >= 5
    /\ result.expanded[1] = <<result.start[1], result.start[2] - 1>>
    /\ result.expanded[2] = <<result.start[1] - 1, result.start[2]>>
    /\ \E i \in 3 .. Len(result.expanded) :
          result.expanded[i] = <<result.start[1] - 1, result.start[2] - 1>>

----------------------------------------------------------------------------
(* Properties of a visible breadth first search and its deliveries. *)

\* the deliveries a visible search registers: one visited marker for each
\* square of "expanded", in that order, then the colouring of the path
VisitedThenPath(expanded, path) ==
    [i \in 1 .. Len(expanded) + 1 |->
        IF i <= Len(expanded)
        THEN [left |-> TIME_DELAY, cb |-> "color_change",
              arg |-> <<expanded[i], SEARCHCOLOR>>]
        ELSE [left |-> TIME_DELAY, cb |-> "color_path", arg |-> path]]

\* the squares at most d moves away from those of "seen", whose outermost
\* are those of "frontier", through the squares of "free"
RECURSIVE WithinMoves(_, _, _, _)
WithinMoves(frontier, seen, free, d) ==
    IF d = 0 \/ frontier = {} THEN seen
    ELSE LET nxt == {n \in free \ seen : \E f \in frontier : Adjacent(f, n)}
         IN  WithinMoves(nxt, seen \cup nxt, free, d - 1)

\* the squares a search has expanded: none twice, neither start nor end,
\* and none further from the start than a reachable end
ExpandedBeforeEnd ==
    /\ \A i, j \in 1 .. Len(result.expanded) :
          result.expanded[i] = result.expanded[j] => i = j
    /\ result.start \notin ExpandedCells
    /\ result.end \notin ExpandedCells
    /\ ResultMoves # -1
          => ExpandedCells \subseteq
                WithinMoves({result.start}, {result.start},
                            Cells \ result.barrier, ResultMoves)

\* C15: in a visible breadth first search the squares that get a visited
\* marker are the squares taken from the queue before the end, in that
\* order: no square twice, neither start nor end, none further from the
\* start than the end; every visited marker is delivered before any path
\* marker, and when all are delivered each square of the path shows the
\* path marker and every other expanded square the visited marker.
C15_VisitedThenPath ==
    /\ [](Searched => ExpandedBeforeEnd)
    /\ [][search => timers' = VisitedThenPath(result'.expanded, result'.path)]_vars
    /\ [][(FireTimer /\ Head(timers).cb = "color_change"
                     /\ Head(timers).arg[2] = PATHCOLOR)
            => \A i \in 1 .. Len(timers) :
                  ~(timers[i].cb = "color_change" /\ timers[i].arg[2] = SEARCHCOLOR)]_vars
    /\ []((Searched /\ timers = <<>>)
            => /\ Marked(PATHCOLOR) = PathCells
               /\ Marked(SEARCHCOLOR) = ExpandedCells \ PathCells)

\* every marker of a visible search is delivered: the path has 2 squares or
\* more and the search expanded squares that are not on it
C15_Witness ==
    /\ Searched /\ result.kind = "Breadth" /\ visibleSearch = "True"
    /\ timers = <<>>
    /\ Len(result.path) >= 2
    /\ Marked(PATHCOLOR) = PathCells
    /\ Marked(SEARCHCOLOR) # {}
    /\ Marked(SEARCHCOLOR) = ExpandedCells \ PathCells


\* C17: while the barrier is edited or the options are chosen both
\* startPoint and endPoint are set, while the end is picked startPoint is
\* set, while the start is picked endPoint is not set; so a search never
\* runs without startPoint or endPoint.
C17_StageHasItsPoints ==
    /\ [](/\ stage \in {"EditingBarriers", "ChoosingOptions"}
                => startPoint # None /\ endPoint # None
          /\ stage = "PickingEnd" => startPoint # None
          /\ stage = "PickingStart" => endPoint = None)
    /\ [][search => startPoint # None /\ endPoint # None]_vars

\* a search has run in the session, between the two points that are set
C17_Witness ==
    /\ stage = "ChoosingOptions"
    /\ Searched
    /\ startPoint # None /\ result.start = startPoint
    /\ endPoint # None /\ result.end = endPoint


C21_CallbacksSpareTheNewSession ==
    [][FireTimer
         => /\ (startPoint # None /\ color[startPoint] = STARTCOLOR)
                  => color'[startPoint] = STARTCOLOR
            /\ (endPoint # None /\ color[endPoint] = ENDCOLOR)
                  => color'[endPoint] = ENDCOLOR
            /\ (Head(timers).cb = "color_change"
                    /\ color[Head(timers).arg[1]] = BARRIERCOLOR)
                  => color'[Head(timers).arg[1]] = BARRIERCOLOR]_vars

====
